---- MODULE Spec2Model ----
(***************************************************************************)
(* kucoin-ws: the Router (first class of src/src/index.ts, lines 7-137)    *)
(* that shards feeds over Connections, and the Connection (second class,   *)
(* lines 153-462) with its connect/reconnect life cycle, its subscription  *)
(* list, its outbound queue and the replay of subscriptions.               *)
(*                                                                         *)
(* Strings are sequences of atoms: "BTC-USDT" is <<"BTC", "-", "USDT">>,   *)
(* so that building a key, split('-') and replace('/', '-') are computed   *)
(* as the code computes them.                                              *)
(***************************************************************************)
EXTENDS Integers, Sequences, FiniteSets, TLC

\* ---------------------------------------------------------------- bounds
\* Connections the Router may create.
MaxClients == 2
\* Asynchronous activities one Connection may have under way at a time: a
\* connect() in progress, a reconnect() in its delay, a pending replay retry,
\* a socket that is not closed yet.
MaxProcs == 2
\* Caller calls are accepted while the outbound queue is shorter than this.
MaxQueue == 2
\* Capacity per Connection: 98 in the source (index.ts line 9), scaled down
\* so that a Connection can be filled.
maxSubscriptions == 2

Conns == 1..MaxClients
Procs == 1..MaxProcs
\* the Connection used directly by a caller, without a Router: the first one
Standalone == CHOOSE c \in Conns : \A d \in Conns : c <= d

\* ---------------------------------------------------------------- inputs
Symbols == { <<"BTC", "-", "USDT">>, <<"BTC">> }
Intervals == { <<"1m">>, <<"7m">> }
\* the symbols candle calls are made with
CandleSymbols == { <<"BTC", "-", "USDT">> }

\* ---------------------------------------------------------------- strings
RECURSIVE IndexOf(_, _, _)
\* first position >= i of atom a in string s, 0 when absent
IndexOf(s, a, i) ==
    IF i > Len(s) THEN 0
    ELSE IF s[i] = a THEN i
    ELSE IndexOf(s, a, i + 1)

\* String.prototype.replace('/', '-'): the first occurrence only
replaceSlash(s) ==
    LET i == IndexOf(s, "/", 1)
    IN  IF i = 0 THEN s ELSE [s EXCEPT ![i] = "-"]

RECURSIVE split(_)
\* String.prototype.split('-'): the list of the pieces between hyphens
split(s) ==
    LET i == IndexOf(s, "-", 1)
    IN  IF i = 0 THEN <<s>>
        ELSE <<SubSeq(s, 1, i - 1)>> \o split(SubSeq(s, i + 1, Len(s)))

\* array destructuring: a missing element is undefined
Undefined == <<"undefined">>
Nth(list, i) == IF i <= Len(list) THEN list[i] ELSE Undefined

includes(list, x) == \E i \in 1..Len(list) : list[i] = x
filterOut(list, x) == SelectSeq(list, LAMBDA y : y # x)

\* supported interval labels and their wire codes
mapCandleInterval == (<<"1m">> :> <<"1min">>)

\* `ticker-${symbol}`
TickerKey(symbol) == <<"ticker", "-">> \o symbol
\* `candle-${symbol}-${interval}`
CandleKey(symbol, interval) == <<"candle", "-">> \o symbol \o <<"-">> \o interval
\* the Router's key helpers
getTickerSubscriptionKey(symbol) == TickerKey(symbol)
getCandleSubscriptionKey(symbol, interval) == CandleKey(symbol, interval)

\* `/market/ticker:${formatSymbol}`
TickerTopic(symbol) == <<"/market/ticker:">> \o replaceSlash(symbol)
\* `/market/candles:${formatSymbol}_${formatInterval}`
CandleTopic(symbol, interval) ==
    <<"/market/candles:">> \o replaceSlash(symbol) \o <<"_">> \o mapCandleInterval[interval]

Frame(type, topic) == [type |-> type, topic |-> topic]

\* ---------------------------------------------------------------- Connection: synchronous calls
\* A synchronous call works on the Connection's subscription list and queue
\* and ends with an outcome: "ok", "noop", "socket-not-ready", or the error
\* it throws ("NotConnected", "InvalidInterval", "TypeError").
\* log: what the call did to the outside, in order: the 'subscriptions'
\* notifications it emitted and the frames it wrote to this.ws
Call(subs, q, busy) == [subs |-> subs, queue |-> q, pending |-> busy, res |-> "ok", log |-> <<>>]
Emit(list) == [ev |-> "emit", data |-> list]
Send(frame) == [ev |-> "send", data |-> frame]

\* queueProcessor.push(job) with autostart and concurrency 1 (line 154): the
\* job runs inside push when no job is in flight, and waits in the queue
\* otherwise; the job calls send (lines 352-358) and never reports its end,
\* so it stays in flight until its timeout
push(st, frame) ==
    IF st.pending THEN [st EXCEPT !.queue = Append(@, frame)]
    ELSE [st EXCEPT !.pending = TRUE, !.log = Append(@, Send(frame))]
Thrown(res) == res \in {"NotConnected", "InvalidInterval", "TypeError", "ActiveSubscriptions"}

\* TRUE when requireSocketToBeOpen returns, FALSE when it throws
requireSocketToBeOpen(open) == open

\* A faulty variant of subscribeTicker, without the test of line 209: a key
\* that is held already is registered and sent again.
subscribeTickerAgain(open, rs, st, symbol) ==
    IF ~requireSocketToBeOpen(open) THEN [st EXCEPT !.res = "NotConnected"]
    ELSE LET pushed == [st EXCEPT !.subs = Append(@, TickerKey(symbol)),
                                  !.log = Append(@, Emit(Append(st.subs, TickerKey(symbol))))]
         IN  IF rs = "undefined" THEN [pushed EXCEPT !.res = "TypeError"]
             ELSE IF rs = "CONNECTING" THEN [pushed EXCEPT !.res = "socket-not-ready"]
             ELSE [push(pushed, Frame("subscribe", TickerTopic(symbol))) EXCEPT !.res = "ok"]

\* open: this.socketOpen; rs: this.ws.readyState ("undefined" without this.ws)
subscribeTicker(open, rs, st, symbol) ==
    IF ~requireSocketToBeOpen(open) THEN [st EXCEPT !.res = "NotConnected"]
    ELSE LET indexSubscription == TickerKey(symbol)
             pushed == [st EXCEPT !.subs = Append(@, indexSubscription),
                                  !.log = Append(@, Emit(Append(st.subs, indexSubscription)))]
         IN  IF includes(st.subs, indexSubscription) THEN [st EXCEPT !.res = "noop"]
             ELSE IF rs = "undefined" THEN [pushed EXCEPT !.res = "TypeError"]
             ELSE IF rs = "CONNECTING" THEN [pushed EXCEPT !.res = "socket-not-ready"]
             ELSE [push(pushed, Frame("subscribe", TickerTopic(symbol))) EXCEPT !.res = "ok"]

unsubscribeTicker(open, rs, st, symbol) ==
    IF ~requireSocketToBeOpen(open) THEN [st EXCEPT !.res = "NotConnected"]
    ELSE LET indexSubscription == TickerKey(symbol)
         IN  IF ~includes(st.subs, indexSubscription) THEN [st EXCEPT !.res = "noop"]
             ELSE LET queued == push(st, Frame("unsubscribe", TickerTopic(symbol)))
                  IN  [queued EXCEPT !.subs = filterOut(@, indexSubscription),
                                     !.log = Append(@, Emit(filterOut(st.subs, indexSubscription))),
                                     !.res = "ok"]

subscribeCandle(open, rs, st, symbol, interval) ==
    IF ~requireSocketToBeOpen(open) THEN [st EXCEPT !.res = "NotConnected"]
    ELSE IF interval \notin DOMAIN mapCandleInterval THEN [st EXCEPT !.res = "InvalidInterval"]
    ELSE LET indexSubscription == CandleKey(symbol, interval)
             pushed == [st EXCEPT !.subs = Append(@, indexSubscription),
                                  !.log = Append(@, Emit(Append(st.subs, indexSubscription)))]
         IN  IF includes(st.subs, indexSubscription) THEN [st EXCEPT !.res = "noop"]
             ELSE IF rs = "undefined" THEN [pushed EXCEPT !.res = "TypeError"]
             ELSE IF rs = "CONNECTING" THEN [pushed EXCEPT !.res = "socket-not-ready"]
             ELSE [push(pushed, Frame("subscribe", CandleTopic(symbol, interval)))
                      EXCEPT !.res = "ok"]

unsubscribeCandle(open, rs, st, symbol, interval) ==
    IF ~requireSocketToBeOpen(open) THEN [st EXCEPT !.res = "NotConnected"]
    ELSE IF interval \notin DOMAIN mapCandleInterval THEN [st EXCEPT !.res = "InvalidInterval"]
    ELSE LET indexSubscription == CandleKey(symbol, interval)
         IN  IF ~includes(st.subs, indexSubscription) THEN [st EXCEPT !.res = "noop"]
             ELSE LET queued == push(st, Frame("unsubscribe", CandleTopic(symbol, interval)))
                  IN  [queued EXCEPT !.subs = filterOut(@, indexSubscription),
                                     !.log = Append(@, Emit(filterOut(st.subs, indexSubscription))),
                                     !.res = "ok"]

RECURSIVE replayLoop(_, _, _, _)
\* the for loop of restartPreviousSubscriptions; a throw ends it
replayLoop(open, rs, st, previousSubs) ==
    IF previousSubs = <<>> THEN [st EXCEPT !.res = "ok"]
    ELSE LET parts == split(Head(previousSubs))
             type == Nth(parts, 1)
             symbol == Nth(parts, 2)
             timeFrame == Nth(parts, 3)
             next == IF type = <<"ticker">> THEN subscribeTicker(open, rs, st, symbol)
                     ELSE IF type = <<"candle">> THEN subscribeCandle(open, rs, st, symbol, timeFrame)
                     ELSE st
         IN  IF Thrown(next.res) THEN next
             ELSE replayLoop(open, rs, next, Tail(previousSubs))

\* outcome "retry": the retry timer was set
restartPreviousSubscriptions(open, rs, st) ==
    IF ~open THEN [st EXCEPT !.res = "ok"]
    ELSE IF rs = "undefined" THEN [st EXCEPT !.res = "TypeError"]
    ELSE IF rs = "CONNECTING" THEN [st EXCEPT !.res = "retry"]
    ELSE replayLoop(open, rs, [st EXCEPT !.subs = <<>>], st.subs)

\* ---------------------------------------------------------------- state
VARIABLES
    clientList,        \* Router: the Connections it created, in creation order
    socketOpen,        \* per Connection: this.socketOpen
    socketConnecting,  \* this.socketConnecting (undefined, falsy, before connect)
    askingClose,       \* this.askingClose
    ws,                \* this.ws: a socket of the Connection, 0 for undefined
    subscriptions,     \* this.subscriptions
    queue,             \* the jobs waiting in queueProcessor
    pending,           \* a job of queueProcessor is in flight
    pingTimer,         \* TRUE while the keepalive interval is set
    async,             \* per Connection, its asynchronous activities:
                       \*   pc[p]   where the connect()/reconnect() of slot p is suspended
                       \*   sock[p] "none" or the readyState of the socket slot p created
                       \*   wel[p]  the server's welcome was delivered on that socket
                       \*   wid[p]  the connectId whose welcome the connect() awaits
                       \*   cid     this.connectId: fresh per connect(), 0 for undefined
    everOpen,          \* history: the Connection reached Open at least once
    requested,         \* history: keys asked of the Router while only subscribing
    onlySubscribes,    \* history: nothing but Router subscribe calls happened, and
                       \*   no token request failed and no socket closed
    last,              \* history: the error thrown by the last step, if it was a
                       \*   call made on a Connection by its caller
    closeAsked,        \* history: the caller of the Connection, which had been
                       \*   open, called closeConnection() on it while it held no
                       \*   subscription, and has not called connect() since
    emitted,           \* history: the 'subscriptions' notifications emitted and
                       \*   the frames written to this.ws, in order, by the last
                       \*   call made on a Connection by its caller
    tracked,           \* TRUE in the specification that keeps the two histories
                       \*   of the server side below
    topics,            \* history: the topics subscribed on the server side of
                       \*   this.ws, by the frames written to it
    wrote              \* history: the frames the last step wrote to this.ws

vars == <<clientList, socketOpen, socketConnecting, askingClose, ws,
          subscriptions, queue, pending, pingTimer, async,
          everOpen, requested, onlySubscribes, last,
          closeAsked, emitted, tracked, topics, wrote>>

routerVars == <<clientList, requested, onlySubscribes>>
wireVars == <<tracked, topics>>
histVars == <<closeAsked, emitted, wireVars>>

\* a connectId whose socket is gone: the identity of no slot
Stale == MaxProcs + 1
Event(op, c, res) == [op |-> op, c |-> c, res |-> res]
\* a step that raised no error
Quiet == Event("quiet", 0, "ok")
\* the record of a synchronous call: its error if it threw
Outcome(op, c, res) == IF Thrown(res) THEN Event(op, c, res) ELSE Quiet

Constructed ==
    /\ clientList = <<>>
    /\ socketOpen = [c \in Conns |-> FALSE]
    /\ socketConnecting = [c \in Conns |-> FALSE]
    /\ askingClose = [c \in Conns |-> FALSE]
    /\ ws = [c \in Conns |-> 0]
    /\ subscriptions = [c \in Conns |-> <<>>]
    /\ queue = [c \in Conns |-> <<>>]
    /\ pending = [c \in Conns |-> FALSE]
    /\ pingTimer = [c \in Conns |-> FALSE]
    /\ async = [c \in Conns |-> [pc |-> [p \in Procs |-> "idle"],
                                  sock |-> [p \in Procs |-> "none"],
                                  wel |-> [p \in Procs |-> FALSE],
                                  wid |-> [p \in Procs |-> 0],
                                  cid |-> 0]]
    /\ everOpen = [c \in Conns |-> FALSE]
    /\ requested = {}
    /\ onlySubscribes = TRUE
    /\ last = Quiet
    /\ closeAsked = [c \in Conns |-> FALSE]
    /\ emitted = <<>>
    /\ topics = [c \in Conns |-> {}]
    /\ wrote = <<>>

Init == Constructed /\ tracked = FALSE

\* a step that may add to the queue of an open Connection waits for room
QueueRoom(c) == Len(queue[c]) < MaxQueue

\* this.ws.readyState
ReadyState(c) == IF ws[c] = 0 THEN "undefined" ELSE async[c].sock[ws[c]]

\* ---------------------------------------------------------------- Connection: activities
\* The asynchronous activities of Connection c as one table.
Table(c) == async[c]

\* An activity that has returned ("done", "failed") or whose awaited event
\* can never come (the 'open' of a socket that closed, the welcome of a socket
\* that is closed or has delivered it) is over; its slot is free again once
\* the socket it created has closed.
Settle(tab) ==
    LET gone(s) == s \notin Procs \/ tab.sock[s] \in {"none", "CLOSED"} \/ tab.wel[s]
        dead(p) == \/ tab.pc[p] = "wsopen" /\ tab.sock[p] # "CONNECTING"
                   \/ tab.pc[p] = "welcome" /\ gone(tab.wid[p])
        pc1(p) == IF tab.pc[p] \in {"done", "failed"} \/ dead(p) THEN "over" ELSE tab.pc[p]
        free(p) == pc1(p) \in {"idle", "over"} /\ tab.sock[p] \in {"none", "CLOSED"}
    IN  [pc |-> [p \in Procs |-> IF free(p) THEN "idle" ELSE pc1(p)],
         sock |-> [p \in Procs |-> IF free(p) THEN "none" ELSE tab.sock[p]],
         wel |-> [p \in Procs |-> IF free(p) THEN FALSE ELSE tab.wel[p]],
         wid |-> [p \in Procs |-> IF pc1(p) = "welcome" THEN tab.wid[p] ELSE 0],
         cid |-> IF tab.cid \in Procs /\ free(tab.cid) /\ pc1(tab.cid) # "idle"
                 THEN Stale ELSE tab.cid]

HasFree(tab) == \E p \in Procs : tab.pc[p] = "idle"
Free(tab) == CHOOSE p \in Procs : tab.pc[p] = "idle" /\ \A q \in Procs : q < p => tab.pc[q] # "idle"
\* a new activity takes the first free slot
Begin(tab, at) == [tab EXCEPT !.pc[Free(tab)] = at]

Put(c, tab) == async' = [async EXCEPT ![c] = Settle(tab)]

\* ---------------------------------------------------------------- Connection: connect
\* caller: connection.connect(), up to its first await (the token request)
ClientConnect(c) ==
    /\ HasFree(Table(c))
    /\ socketConnecting' = [socketConnecting EXCEPT ![c] = TRUE]
    /\ Put(c, Begin(Table(c), "token"))
    /\ last' = Quiet
    /\ closeAsked' = [closeAsked EXCEPT ![c] = FALSE]
    /\ UNCHANGED <<emitted, wireVars>> /\ wrote' = <<>>
    /\ UNCHANGED <<clientList, socketOpen, askingClose, ws, subscriptions, queue, pending,
                   pingTimer, everOpen, requested, onlySubscribes>>

\* the token request fails: got rejects ("rejected": endpoint unreachable, HTTP
\* error, body that is no JSON) or the response carries no token ("notoken")
TokenFailure(c, p, kind) ==
    /\ async[c].pc[p] = "token"
    /\ Put(c, [Table(c) EXCEPT !.pc[p] = "failed"])
    /\ socketConnecting' = IF kind = "notoken" THEN [socketConnecting EXCEPT ![c] = FALSE]
                           ELSE socketConnecting
    /\ last' = Quiet /\ UNCHANGED histVars /\ wrote' = <<>>
    /\ onlySubscribes' = FALSE
    /\ requested' = {}
    /\ UNCHANGED <<clientList, socketOpen, askingClose, ws, subscriptions, queue, pending,
                   pingTimer, everOpen>>

\* the server's topic set after it received the frame
Deliver(set, frame) ==
    IF frame.type = "subscribe" THEN set \cup {frame.topic}
    ELSE IF frame.type = "unsubscribe" THEN set \ {frame.topic}
    ELSE set

RECURSIVE DeliverAll(_, _)
\* the server's topic set after the frames written in log, in order
DeliverAll(set, log) ==
    IF log = <<>> THEN set
    ELSE DeliverAll(IF Head(log).ev = "send" THEN Deliver(set, Head(log).data) ELSE set,
                    Tail(log))

\* the frames written to this.ws in log, in order
Written(log) ==
    LET sends == SelectSeq(log, LAMBDA e : e.ev = "send")
    IN  [i \in 1..Len(sends) |-> sends[i].data]

\* the histories of the server side after a step of Connection c that wrote
\* the frames of log to this.ws: a frame written to a socket that is not open
\* does not reach the server
Served(c, log) ==
    /\ topics' = IF tracked /\ ReadyState(c) = "OPEN"
                 THEN [topics EXCEPT ![c] = DeliverAll(@, log)]
                 ELSE topics
    /\ wrote' = IF tracked /\ ws[c] # 0 THEN Written(log) ELSE <<>>

\* lines 199-201 of connect() on list subs and queue q
replayIfAny(open, rs, subs, q, busy) ==
    IF Len(subs) # 0 THEN restartPreviousSubscriptions(open, rs, Call(subs, q, busy))
    ELSE Call(subs, q, busy)

\* where an activity stands after running restartPreviousSubscriptions
After(res) == IF res = "retry" THEN "retry" ELSE IF Thrown(res) THEN "failed" ELSE "done"

\* the token arrives: lines 188-197, and openWebsocketConnection up to its
\* first await; with socketOpen set it returns at once and connect() goes on
\* to lines 199-201
TokenSuccess(c, p) ==
    /\ async[c].pc[p] = "token"
    /\ socketOpen[c] => QueueRoom(c)
    /\ askingClose' = [askingClose EXCEPT ![c] = FALSE]
    /\ IF socketOpen[c]
       THEN LET st == replayIfAny(TRUE, ReadyState(c), subscriptions[c], queue[c], pending[c])
            IN  /\ subscriptions' = [subscriptions EXCEPT ![c] = st.subs]
                /\ queue' = [queue EXCEPT ![c] = st.queue]
                /\ pending' = [pending EXCEPT ![c] = st.pending]
                /\ Served(c, st.log)
                /\ Put(c, [Table(c) EXCEPT !.cid = p, !.pc[p] = After(st.res)])
                /\ last' = Quiet
                /\ UNCHANGED <<closeAsked, emitted, tracked>>
                /\ ws' = ws
       ELSE /\ ws' = [ws EXCEPT ![c] = p]
            /\ Put(c, [Table(c) EXCEPT !.cid = p, !.pc[p] = "wsopen", !.sock[p] = "CONNECTING"])
            /\ last' = Quiet
            /\ topics' = [topics EXCEPT ![c] = {}]
            /\ wrote' = <<>>
            /\ UNCHANGED <<closeAsked, emitted, tracked>>
            /\ UNCHANGED <<subscriptions, queue, pending>>
    /\ UNCHANGED <<clientList, socketOpen, socketConnecting, pingTimer, everOpen, requested, onlySubscribes>>

\* the socket's 'open' event: waitOpenSocket resolves, the connect() that
\* created the socket now waits for the welcome of the current connectId
SocketOpen(c, s) ==
    /\ async[c].sock[s] = "CONNECTING"
    /\ Put(c, [Table(c) EXCEPT !.sock[s] = "OPEN",
                               !.pc[s] = IF @ = "wsopen" THEN "welcome" ELSE @,
                               !.wid[s] = IF async[c].pc[s] = "wsopen" THEN async[c].cid ELSE @])
    /\ last' = Quiet /\ UNCHANGED histVars /\ wrote' = <<>>
    /\ UNCHANGED <<clientList, socketOpen, socketConnecting, askingClose, ws,
                   subscriptions, queue, pending, pingTimer, everOpen, requested,
                   onlySubscribes>>

RECURSIVE resumeConnects(_, _, _)
\* lines 199-201 run by n connect() invocations in turn, all resumed by the
\* same welcome: each replays the list the one before it left
resumeConnects(rs, acc, n) ==
    IF n = 0 THEN acc
    ELSE LET st == replayIfAny(TRUE, rs, acc.subs, acc.queue, acc.pending)
         IN  resumeConnects(rs, [subs |-> st.subs, queue |-> st.queue,
                                 pending |-> st.pending, log |-> acc.log \o st.log,
                                 out |-> Append(acc.out, st.res)], n - 1)

\* the connect() invocations that wait for the welcome of socket s
Waiters(c, s) == {q \in Procs : async[c].pc[q] = "welcome" /\ async[c].wid[q] = s}

\* the welcome message of socket s (it carries the connectId of the socket's
\* URL): lines 449-452 of every connect() waiting for it, then lines 199-201
Welcome(c, s) ==
    /\ async[c].sock[s] \in {"OPEN", "CLOSING"}
    /\ ~async[c].wel[s]
    /\ socketOpen[c] => QueueRoom(c)
    /\ LET W == Waiters(c, s)
           r == resumeConnects(ReadyState(c),
                               [subs |-> subscriptions[c], queue |-> queue[c],
                                pending |-> pending[c], log |-> <<>>, out |-> <<>>],
                               Cardinality(W))
           rank(q) == Cardinality({w \in W : w <= q})
       IN  /\ Put(c, [Table(c) EXCEPT !.wel[s] = TRUE,
                                      !.pc = [q \in Procs |-> IF q \in W THEN After(r.out[rank(q)])
                                                              ELSE async[c].pc[q]]])
           /\ IF W = {}
              THEN UNCHANGED <<socketOpen, socketConnecting, pingTimer, everOpen,
                              subscriptions, queue, pending, topics>>
                   /\ wrote' = <<>>
              ELSE /\ socketOpen' = [socketOpen EXCEPT ![c] = TRUE]
                   /\ socketConnecting' = [socketConnecting EXCEPT ![c] = FALSE]
                   /\ pingTimer' = [pingTimer EXCEPT ![c] = TRUE]
                   /\ everOpen' = [everOpen EXCEPT ![c] = TRUE]
                   /\ subscriptions' = [subscriptions EXCEPT ![c] = r.subs]
                   /\ queue' = [queue EXCEPT ![c] = r.queue]
                   /\ pending' = [pending EXCEPT ![c] = r.pending]
                   /\ Served(c, r.log)
    /\ last' = Quiet
    /\ UNCHANGED <<closeAsked, emitted, tracked>>
    /\ UNCHANGED <<clientList, askingClose, ws, requested, onlySubscribes>>

\* the 'close' event of socket s (lines 433-442); the handler works on the
\* Connection's fields whichever socket of the Connection closed; unless the
\* close was asked for, reconnect() starts its delay
SocketClose(c, s) ==
    /\ async[c].sock[s] \in {"CONNECTING", "OPEN", "CLOSING"}
    /\ LET closed == Settle([Table(c) EXCEPT !.sock[s] = "CLOSED"])
       IN  /\ askingClose[c] \/ HasFree(closed)
           /\ Put(c, IF askingClose[c] THEN closed ELSE Begin(closed, "delay"))
    /\ queue' = [queue EXCEPT ![c] = <<>>]
    /\ pending' = [pending EXCEPT ![c] = FALSE]
    /\ socketOpen' = [socketOpen EXCEPT ![c] = FALSE]
    /\ pingTimer' = [pingTimer EXCEPT ![c] = FALSE]
    /\ ws' = [ws EXCEPT ![c] = 0]
    /\ onlySubscribes' = FALSE
    /\ requested' = {}
    /\ last' = Quiet
    /\ topics' = [topics EXCEPT ![c] = {}]
    /\ wrote' = <<>>
    /\ UNCHANGED <<closeAsked, emitted, tracked>>
    /\ UNCHANGED <<clientList, socketConnecting, askingClose, subscriptions, everOpen>>

\* reconnect(): the delay is over, connect() is called (lines 414-416, 178-179)
ReconnectTimer(c, p) ==
    /\ async[c].pc[p] = "delay"
    /\ socketConnecting' = [socketConnecting EXCEPT ![c] = TRUE]
    /\ Put(c, [Table(c) EXCEPT !.pc[p] = "token"])
    /\ last' = Quiet /\ UNCHANGED histVars /\ wrote' = <<>>
    /\ UNCHANGED <<clientList, socketOpen, askingClose, ws, subscriptions, queue, pending,
                   pingTimer, everOpen, requested, onlySubscribes>>

\* the retry set by restartPreviousSubscriptions (line 367) fires
RetryTimer(c, p) ==
    /\ async[c].pc[p] = "retry"
    /\ QueueRoom(c)
    /\ LET st == restartPreviousSubscriptions(socketOpen[c], ReadyState(c),
                                              Call(subscriptions[c], queue[c], pending[c]))
       IN  /\ subscriptions' = [subscriptions EXCEPT ![c] = st.subs]
           /\ queue' = [queue EXCEPT ![c] = st.queue]
           /\ pending' = [pending EXCEPT ![c] = st.pending]
           /\ Served(c, st.log)
           /\ Put(c, [Table(c) EXCEPT !.pc[p] = After(st.res)])
           /\ last' = Quiet
           /\ UNCHANGED <<closeAsked, emitted, tracked>>
    /\ UNCHANGED <<clientList, socketOpen, socketConnecting, askingClose, ws,
                   pingTimer, everOpen, requested, onlySubscribes>>

\* A faulty variant of shift: the queue runs its newest job first.
shiftNewest(q) == [job |-> q[Len(q)], rest |-> SubSeq(q, 1, Len(q) - 1)]

\* the job the queue runs next, and the jobs that stay (jobs.shift())
shift(q) == [job |-> Head(q), rest |-> Tail(q)]

\* the timeout (250 ms) of the job in flight: the queue takes the job for
\* ended and runs its oldest waiting job, if any: send (lines 352-358) writes
\* the frame to this.ws, or drops it when there is no this.ws
RunJob(c) ==
    /\ pending[c]
    /\ IF queue[c] = <<>>
       THEN /\ pending' = [pending EXCEPT ![c] = FALSE]
            /\ UNCHANGED <<queue, topics>>
            /\ wrote' = <<>>
       ELSE /\ queue' = [queue EXCEPT ![c] = shift(@).rest]
            /\ Served(c, <<Send(shift(queue[c]).job)>>)
            /\ UNCHANGED pending
    /\ last' = Quiet
    /\ UNCHANGED <<closeAsked, emitted, tracked>>
    /\ UNCHANGED <<clientList, socketOpen, socketConnecting, askingClose, ws,
                   subscriptions, pingTimer, async,
                   everOpen, requested, onlySubscribes>>

\* the keepalive interval fires: sendPing (lines 394-402) writes a ping frame
\* to this.ws by send, not through queueProcessor; it throws when the
\* Connection is not open
Ping(c) ==
    /\ pingTimer[c]
    /\ Served(c, IF requireSocketToBeOpen(socketOpen[c])
                 THEN <<Send(Frame("ping", <<>>))>> ELSE <<>>)
    /\ last' = Quiet
    /\ UNCHANGED <<closeAsked, emitted, tracked>>
    /\ UNCHANGED <<clientList, socketOpen, socketConnecting, askingClose, ws,
                   subscriptions, queue, pending, pingTimer, async,
                   everOpen, requested, onlySubscribes>>

\* ---------------------------------------------------------------- Connection: caller calls
\* the fields a synchronous call leaves alone
callFrame == <<socketOpen, socketConnecting, askingClose, ws, pingTimer, async, everOpen>>

\* store the outcome of a synchronous call on Connection c
Store(c, st) ==
    /\ subscriptions' = [subscriptions EXCEPT ![c] = st.subs]
    /\ queue' = [queue EXCEPT ![c] = st.queue]
    /\ pending' = [pending EXCEPT ![c] = st.pending]
    /\ Served(c, st.log)

ClientSubscribeTicker(c, symbol) ==
    /\ QueueRoom(c)
    /\ LET st == subscribeTicker(socketOpen[c], ReadyState(c),
                                 Call(subscriptions[c], queue[c], pending[c]), symbol)
       IN  /\ Store(c, st)
           /\ last' = Outcome("subscribeTicker", c, st.res)
           /\ emitted' = st.log
    /\ UNCHANGED <<callFrame, routerVars, closeAsked, tracked>>

ClientUnsubscribeTicker(c, symbol) ==
    /\ QueueRoom(c)
    /\ LET st == unsubscribeTicker(socketOpen[c], ReadyState(c),
                                   Call(subscriptions[c], queue[c], pending[c]), symbol)
       IN  /\ Store(c, st)
           /\ last' = Outcome("unsubscribeTicker", c, st.res)
           /\ emitted' = st.log
    /\ UNCHANGED <<callFrame, routerVars, closeAsked, tracked>>

ClientSubscribeCandle(c, symbol, interval) ==
    /\ QueueRoom(c)
    /\ LET st == subscribeCandle(socketOpen[c], ReadyState(c),
                                 Call(subscriptions[c], queue[c], pending[c]), symbol, interval)
       IN  /\ Store(c, st)
           /\ last' = Outcome("subscribeCandle", c, st.res)
           /\ emitted' = st.log
    /\ UNCHANGED <<callFrame, routerVars, closeAsked, tracked>>

ClientUnsubscribeCandle(c, symbol, interval) ==
    /\ QueueRoom(c)
    /\ LET st == unsubscribeCandle(socketOpen[c], ReadyState(c),
                                   Call(subscriptions[c], queue[c], pending[c]), symbol, interval)
       IN  /\ Store(c, st)
           /\ last' = Outcome("unsubscribeCandle", c, st.res)
           /\ emitted' = st.log
    /\ UNCHANGED <<callFrame, routerVars, closeAsked, tracked>>

\* A faulty variant of closeConnection, without the test of line 332: the
\* socket is closed whatever the Connection holds.
closeConnectionAnyway(subs, rs) ==
    IF rs = "undefined" THEN [res |-> "TypeError", asking |-> TRUE, closing |-> FALSE]
    ELSE [res |-> "ok", asking |-> TRUE, closing |-> rs \in {"CONNECTING", "OPEN"}]

\* closeConnection (lines 331-338) on a Connection with subscription list
\* subs and readyState rs: the outcome, whether askingClose was set, and
\* whether close() was called on an open or connecting socket
closeConnection(subs, rs) ==
    IF Len(subs) # 0 THEN [res |-> "ActiveSubscriptions", asking |-> FALSE, closing |-> FALSE]
    ELSE IF rs = "undefined" THEN [res |-> "TypeError", asking |-> TRUE, closing |-> FALSE]
    ELSE [res |-> "ok", asking |-> TRUE, closing |-> rs \in {"CONNECTING", "OPEN"}]

ClientCloseConnection(c) ==
    /\ LET r == closeConnection(subscriptions[c], ReadyState(c))
       IN  /\ askingClose' = [askingClose EXCEPT ![c] = @ \/ r.asking]
           /\ Put(c, IF r.closing THEN [Table(c) EXCEPT !.sock[ws[c]] = "CLOSING"] ELSE Table(c))
           /\ last' = Outcome("closeConnection", c, r.res)
           /\ closeAsked' = [closeAsked EXCEPT ![c] = @ \/ (r.asking /\ everOpen[c])]
           /\ emitted' = <<>>
           /\ UNCHANGED wireVars /\ wrote' = <<>>
    /\ UNCHANGED <<clientList, socketOpen, socketConnecting, ws, subscriptions,
                   queue, pending, pingTimer, everOpen, requested, onlySubscribes>>

\* what the environment and the timers do to Connection c
Lifecycle(c) ==
    \/ \E p \in Procs : TokenSuccess(c, p)
    \/ \E p \in Procs, kind \in {"rejected", "notoken"} : TokenFailure(c, p, kind)
    \/ \E s \in Procs : SocketOpen(c, s)
    \/ \E s \in Procs : Welcome(c, s)
    \/ \E s \in Procs : SocketClose(c, s)
    \/ \E p \in Procs : ReconnectTimer(c, p)
    \/ RunJob(c)
    \/ Ping(c)

\* The retry timer is set only by a replay that finds this.ws still
\* connecting while socketOpen is set, which takes a connect() on an open
\* Connection: NoRetryPending holds where connect() is called at rest only.
Internal(c) ==
    \/ Lifecycle(c)
    \/ \E p \in Procs : RetryTimer(c, p)

NoRetryPending == \A c \in Conns, p \in Procs : async[c].pc[p] # "retry"

\* a Connection used directly by its caller
NextClient ==
    \/ ClientConnect(Standalone)
    \/ \E symbol \in Symbols : ClientSubscribeTicker(Standalone, symbol)
    \/ \E symbol \in Symbols : ClientUnsubscribeTicker(Standalone, symbol)
    \/ \E symbol \in CandleSymbols, interval \in Intervals :
           ClientSubscribeCandle(Standalone, symbol, interval)
    \/ \E symbol \in CandleSymbols, interval \in Intervals :
           ClientUnsubscribeCandle(Standalone, symbol, interval)
    \/ ClientCloseConnection(Standalone)
    \/ Internal(Standalone)

SpecClient == Init /\ [][NextClient]_vars

\* a caller that calls connect() only on a Connection at rest: not open, no
\* socket, no connect() or reconnect() under way
AtRest(c) ==
    /\ ~socketOpen[c]
    /\ \A p \in Procs : async[c].pc[p] = "idle"

SessionConnect(c) == AtRest(c) /\ ClientConnect(c)

NextSession ==
    \/ SessionConnect(Standalone)
    \/ \E symbol \in Symbols : ClientSubscribeTicker(Standalone, symbol)
    \/ \E symbol \in Symbols : ClientUnsubscribeTicker(Standalone, symbol)
    \/ \E symbol \in CandleSymbols, interval \in Intervals :
           ClientSubscribeCandle(Standalone, symbol, interval)
    \/ \E symbol \in CandleSymbols, interval \in Intervals :
           ClientUnsubscribeCandle(Standalone, symbol, interval)
    \/ ClientCloseConnection(Standalone)
    \/ Lifecycle(Standalone)

SpecSession == Init /\ [][NextSession]_vars

\* the same caller, using ticker feeds whose symbols are written with either
\* separator, with the histories of the server side kept
WireSymbols == {<<"BTC", "-", "USDT">>, <<"BTC", "/", "USDT">>}

InitWire == Constructed /\ tracked = TRUE

NextWire ==
    \/ SessionConnect(Standalone)
    \/ \E symbol \in WireSymbols : ClientSubscribeTicker(Standalone, symbol)
    \/ \E symbol \in WireSymbols : ClientUnsubscribeTicker(Standalone, symbol)
    \/ ClientCloseConnection(Standalone)
    \/ Lifecycle(Standalone)

SpecWire == InitWire /\ [][NextWire]_vars

\* ---------------------------------------------------------------- Router
Clients == {clientList[i] : i \in 1..Len(clientList)}
\* client.getSubscriptions()
getSubscriptions(c) == subscriptions[c]
\* client.getSubscriptionNumber()
getSubscriptionNumber(c) == Len(subscriptions[c])
\* clientList.some(client => client.getSubscriptions().includes(key))
alreadySubscribed(key) == \E c \in Clients : includes(getSubscriptions(c), key)
\* clientList.find(...): the first Connection that holds the key
Holder(key) ==
    clientList[CHOOSE i \in 1..Len(clientList) :
                   /\ includes(getSubscriptions(clientList[i]), key)
                   /\ \A j \in 1..(i - 1) : ~includes(getSubscriptions(clientList[j]), key)]

\* A faulty variant of the test of line 117, with > for >=: the last
\* Connection is given one feed more than the capacity before a new one is made.
CreatesClientLate ==
    \/ Len(clientList) = 0
    \/ Len(subscriptions[clientList[Len(clientList)]]) > maxSubscriptions

\* getLastClient creates a Connection (line 117)
CreatesClient ==
    \/ Len(clientList) = 0
    \/ getSubscriptionNumber(clientList[Len(clientList)]) >= maxSubscriptions
\* the Connection getLastClient returns; a new one takes the next identity
getLastClient == IF CreatesClient THEN Len(clientList) + 1 ELSE clientList[Len(clientList)]

\* lines 118-121: the new Connection is appended and its connect() runs up
\* to the token request
GetLastClient ==
    IF CreatesClient
    THEN /\ Len(clientList) < MaxClients
         /\ clientList' = Append(clientList, getLastClient)
         /\ socketConnecting' = [socketConnecting EXCEPT ![getLastClient] = TRUE]
         /\ Put(getLastClient, Begin(Table(getLastClient), "token"))
    ELSE UNCHANGED <<clientList, socketConnecting, async>>

\* the history of a Router call
Asked(key, subscribing) ==
    /\ onlySubscribes' = (onlySubscribes /\ subscribing)
    /\ requested' = IF onlySubscribes /\ subscribing THEN requested \cup key ELSE {}

RouterConnect ==
    /\ GetLastClient
    /\ Asked({}, FALSE)
    /\ last' = Quiet /\ UNCHANGED histVars /\ wrote' = <<>>
    /\ UNCHANGED <<socketOpen, askingClose, ws, subscriptions, queue, pending, pingTimer,
                   everOpen>>

RouterSubscribeTicker(symbol) ==
    LET key == getTickerSubscriptionKey(symbol)
        target == getLastClient
    IN  /\ Asked({key}, TRUE)
        /\ IF alreadySubscribed(key)
           THEN /\ last' = Quiet /\ UNCHANGED histVars /\ wrote' = <<>>
                /\ UNCHANGED <<clientList, socketConnecting, async, subscriptions, queue, pending>>
           ELSE /\ GetLastClient
                /\ QueueRoom(target)
                /\ LET st == subscribeTicker(socketOpen[target], ReadyState(target),
                                             Call(subscriptions[target], queue[target], pending[target]), symbol)
                   IN  /\ Store(target, st)
                       /\ last' = Quiet /\ UNCHANGED <<closeAsked, emitted, tracked>>
        /\ UNCHANGED <<socketOpen, askingClose, ws, pingTimer, everOpen>>

RouterSubscribeCandle(symbol, interval) ==
    LET key == getCandleSubscriptionKey(symbol, interval)
        target == getLastClient
    IN  /\ Asked(IF interval \in DOMAIN mapCandleInterval THEN {key} ELSE {}, TRUE)
        /\ IF alreadySubscribed(key)
           THEN /\ last' = Quiet /\ UNCHANGED histVars /\ wrote' = <<>>
                /\ UNCHANGED <<clientList, socketConnecting, async, subscriptions, queue, pending>>
           ELSE /\ GetLastClient
                /\ QueueRoom(target)
                /\ LET st == subscribeCandle(socketOpen[target], ReadyState(target),
                                             Call(subscriptions[target], queue[target], pending[target]),
                                             symbol, interval)
                   IN  /\ Store(target, st)
                       /\ last' = Quiet /\ UNCHANGED <<closeAsked, emitted, tracked>>
        /\ UNCHANGED <<socketOpen, askingClose, ws, pingTimer, everOpen>>

RouterUnsubscribeTicker(symbol) ==
    LET key == getTickerSubscriptionKey(symbol)
    IN  /\ Asked({}, FALSE)
        /\ IF ~alreadySubscribed(key)
           THEN /\ last' = Quiet /\ UNCHANGED histVars /\ wrote' = <<>>
                /\ UNCHANGED <<subscriptions, queue, pending>>
           ELSE LET client == Holder(key)
                    st == unsubscribeTicker(socketOpen[client], ReadyState(client),
                                            Call(subscriptions[client], queue[client], pending[client]), symbol)
                IN  /\ QueueRoom(client)
                    /\ Store(client, st)
                    /\ last' = Quiet /\ UNCHANGED <<closeAsked, emitted, tracked>>
        /\ UNCHANGED <<clientList, callFrame>>

RouterUnsubscribeCandle(symbol, interval) ==
    LET key == getCandleSubscriptionKey(symbol, interval)
    IN  /\ Asked({}, FALSE)
        /\ IF ~alreadySubscribed(key)
           THEN /\ last' = Quiet /\ UNCHANGED histVars /\ wrote' = <<>>
                /\ UNCHANGED <<subscriptions, queue, pending>>
           ELSE LET client == Holder(key)
                    st == unsubscribeCandle(socketOpen[client], ReadyState(client),
                                            Call(subscriptions[client], queue[client], pending[client]),
                                            symbol, interval)
                IN  /\ QueueRoom(client)
                    /\ Store(client, st)
                    /\ last' = Quiet /\ UNCHANGED <<closeAsked, emitted, tracked>>
        /\ UNCHANGED <<clientList, callFrame>>

\* how the Router's subscribeCandle (lines 58-68) ends for its caller: "noop"
\* when it returns at line 64, else as the call on the target Connection ends
RouterSubscribeCandleOutcome(symbol, interval) ==
    IF alreadySubscribed(getCandleSubscriptionKey(symbol, interval)) THEN "noop"
    ELSE subscribeCandle(socketOpen[getLastClient], ReadyState(getLastClient),
                         Call(subscriptions[getLastClient], queue[getLastClient],
                              pending[getLastClient]),
                         symbol, interval).res

\* how the Router's unsubscribeCandle (lines 70-84) ends for its caller: "noop"
\* when it returns at line 76, else as the call on the holder ends
RouterUnsubscribeCandleOutcome(symbol, interval) ==
    LET key == getCandleSubscriptionKey(symbol, interval)
    IN  IF ~alreadySubscribed(key) THEN "noop"
        ELSE unsubscribeCandle(socketOpen[Holder(key)], ReadyState(Holder(key)),
                               Call(subscriptions[Holder(key)], queue[Holder(key)],
                                    pending[Holder(key)]),
                               symbol, interval).res

RECURSIVE closeEach(_, _)
\* clientList.forEach(client => client.closeConnection()) from position i on:
\* the Connections whose closeConnection ran, each with its outcome; a throw
\* ends the loop
closeEach(i, acc) ==
    IF i > Len(clientList) THEN acc
    ELSE LET c == clientList[i]
             r == closeConnection(subscriptions[c], ReadyState(c))
             acc1 == [ran |-> acc.ran \cup {c},
                      out |-> [acc.out EXCEPT ![c] = r],
                      res |-> r.res]
         IN  IF Thrown(r.res) THEN acc1 ELSE closeEach(i + 1, acc1)

RouterCloseConnection ==
    LET quiet == [res |-> "ok", asking |-> FALSE, closing |-> FALSE]
        all == closeEach(1, [ran |-> {}, out |-> [c \in Conns |-> quiet], res |-> "ok"])
    IN  /\ askingClose' = [c \in Conns |-> askingClose[c] \/ all.out[c].asking]
        /\ async' = [c \in Conns |->
                        IF all.out[c].closing
                        THEN Settle([Table(c) EXCEPT !.sock[ws[c]] = "CLOSING"])
                        ELSE async[c]]
        /\ Asked({}, FALSE)
        /\ last' = Quiet
        /\ closeAsked' = [c \in Conns |-> closeAsked[c] \/ (all.out[c].asking /\ everOpen[c])]
        /\ UNCHANGED <<emitted, wireVars>> /\ wrote' = <<>>
        /\ UNCHANGED <<clientList, socketOpen, socketConnecting, ws, subscriptions, queue, pending,
                       pingTimer, everOpen>>

Next ==
    \/ RouterConnect
    \/ \E symbol \in Symbols : RouterSubscribeTicker(symbol)
    \/ \E symbol \in Symbols : RouterUnsubscribeTicker(symbol)
    \/ \E symbol \in CandleSymbols, interval \in Intervals : RouterSubscribeCandle(symbol, interval)
    \/ \E symbol \in CandleSymbols, interval \in Intervals : RouterUnsubscribeCandle(symbol, interval)
    \/ RouterCloseConnection
    \/ \E c \in Clients : Lifecycle(c)

Spec == Init /\ [][Next]_vars

\* ---------------------------------------------------------------- properties
\* the number of entries of list that equal x
Count(list, x) == Cardinality({i \in 1..Len(list) : list[i] = x})

\* C1: in every reachable state of the Router, a feed key is in the
\* subscription list of at most one Connection.
C1_KeyInAtMostOneConnection ==
    \A c, d \in Clients :
        c # d => \A i \in 1..Len(subscriptions[c]) :
                     ~includes(subscriptions[d], subscriptions[c][i])

\* C2: replay fidelity. While a Connection is not open its subscription list
\* cannot change (every call throws), so the list S it had when its socket
\* closed is the list it has when it becomes open again; the step that makes
\* it open runs the replay, and must leave the list exactly S.
C2_ReplayFidelity ==
    [][\A c \in Conns :
          (~socketOpen[c] /\ socketOpen'[c]) => subscriptions'[c] = subscriptions[c]]_vars

\* C3: a Router subscribeTicker/subscribeCandle call for a (valid) feed key
\* that no Connection holds ends with the key in the subscription list of the
\* target Connection, whether the Router has no Connection, a full last
\* Connection or a last Connection with room.
C3_RouterSubscribeRegisters ==
    [][/\ \A symbol \in Symbols :
             (RouterSubscribeTicker(symbol) /\ ~alreadySubscribed(getTickerSubscriptionKey(symbol)))
                 => includes(subscriptions'[getLastClient], getTickerSubscriptionKey(symbol))
       /\ \A symbol \in CandleSymbols, interval \in DOMAIN mapCandleInterval :
             (/\ RouterSubscribeCandle(symbol, interval)
              /\ ~alreadySubscribed(getCandleSubscriptionKey(symbol, interval)))
                 => includes(subscriptions'[getLastClient],
                             getCandleSubscriptionKey(symbol, interval))]_vars

\* C4: in every reachable state of the Router, no Connection holds more than
\* maxSubscriptions feed keys.
C4_CapacityNeverExceeded ==
    \A c \in Clients : Len(subscriptions[c]) <= maxSubscriptions

\* C4 happens: a Connection is full and the Router has made a further one,
\* which holds a feed.
C4_FullAndNextInUse ==
    /\ Len(clientList) >= 2
    /\ Len(subscriptions[clientList[1]]) = maxSubscriptions
    /\ Len(subscriptions[clientList[2]]) >= 1

\* C5: from a Router without Connections, after nothing but subscribe calls
\* for N distinct feeds (and no fault of the token endpoint or of a socket),
\* there are ceil(N / maxSubscriptions) Connections, every one but the last
\* holds maxSubscriptions keys and the last holds the rest.
C5_FilledInCreationOrder ==
    onlySubscribes =>
        LET N == Cardinality(requested)
            K == (N + maxSubscriptions - 1) \div maxSubscriptions
        IN  /\ Len(clientList) = K
            /\ \A i \in 1..Len(clientList) :
                   Len(subscriptions[clientList[i]]) =
                       IF i < K THEN maxSubscriptions ELSE N - (K - 1) * maxSubscriptions

\* an open Connection whose transport is ready
Ready(c) == socketOpen[c] /\ ReadyState(c) = "OPEN"

\* the frames the last call of the caller caused on Connection c: those it
\* wrote to this.ws and those it left waiting in the queue
Caused(c) ==
    Written(emitted') \o SubSeq(queue'[c], Len(queue[c]) + 1, Len(queue'[c]))

\* what a subscribe call for key, with the frame for topic, does to
\* Connection c when C6 holds: nothing when the key is held, else one entry
\* and one subscribe frame more; either way the key is held once afterwards
SubscribedOnce(c, key, topic) ==
    /\ IF includes(subscriptions[c], key)
       THEN UNCHANGED <<subscriptions, queue, pending>> /\ Caused(c) = <<>>
       ELSE /\ subscriptions'[c] = Append(subscriptions[c], key)
            /\ Caused(c) = <<Frame("subscribe", topic)>>
    /\ Count(subscriptions'[c], key) = 1

\* C6: idempotency. On an open Connection with a ready transport a
\* subscribeTicker or subscribeCandle call for a key the Connection holds
\* changes neither the subscription list nor the queue, and a call for a key
\* it does not hold adds one entry and causes one subscribe frame, written
\* at once or left in the queue: two calls in a row leave one entry and cause
\* one frame.
C6_SubscribeIdempotent ==
    [][/\ \A symbol \in Symbols :
             (ClientSubscribeTicker(Standalone, symbol) /\ Ready(Standalone))
                 => SubscribedOnce(Standalone, TickerKey(symbol), TickerTopic(symbol))
       /\ \A symbol \in CandleSymbols, interval \in DOMAIN mapCandleInterval :
             (ClientSubscribeCandle(Standalone, symbol, interval) /\ Ready(Standalone))
                 => SubscribedOnce(Standalone, CandleKey(symbol, interval),
                                   CandleTopic(symbol, interval))]_vars

\* C6 happens: the Connection is open and ready, holds the ticker key of
\* BTC-USDT once, and the one subscribe frame of that key was written by the
\* last call and is in flight: the state after the first call, in which a
\* second call is made.
C6_HeldOnceOneFrame ==
    /\ Ready(Standalone)
    /\ Count(subscriptions[Standalone], TickerKey(<<"BTC", "-", "USDT">>)) = 1
    /\ Written(emitted) = <<Frame("subscribe", TickerTopic(<<"BTC", "-", "USDT">>))>>
    /\ pending[Standalone]
    /\ queue[Standalone] = <<>>

\* the calls of a Connection that requireSocketToBeOpen guards
GuardedCalls == {"subscribeTicker", "unsubscribeTicker", "subscribeCandle", "unsubscribeCandle"}

\* C7: a subscribe or unsubscribe call of a Connection fails with
\* NotConnected only if the Connection has never been open.
C7_NotConnectedOnlyBeforeFirstOpen ==
    (last.op \in GuardedCalls /\ last.res = "NotConnected") => ~everOpen[last.c]

\* C8: connect() on a Connection that is open changes nothing: the open and
\* connecting flags, the connectId, the socket, the subscription list and the
\* queue stay as they are.
C8_ConnectOnOpenIsNoOp ==
    [][(ClientConnect(Standalone) /\ socketOpen[Standalone])
          => /\ UNCHANGED <<socketOpen, socketConnecting, ws, subscriptions, queue, pending>>
             /\ async'[Standalone].cid = async[Standalone].cid]_vars

\* a connect() of Connection c is under way
Connects(c) == {p \in Procs : async[c].pc[p] \in {"token", "wsopen", "welcome"}}

\* C9: when the token request of a connect() fails, whether it is rejected
\* or answered without a token, the connect() ends with an error and (no other
\* connect() of the Connection being under way) the Connection is not
\* connecting afterwards.
C9_TokenFailureNotConnecting ==
    [][\A c \in Conns, p \in Procs, kind \in {"rejected", "notoken"} :
          (TokenFailure(c, p, kind) /\ Connects(c) = {p})
              => (async'[c].pc[p] \notin {"token", "wsopen", "welcome"}
                  /\ ~socketConnecting'[c])]_vars

\* a reconnect() of Connection c is in its delay
Delays(c) == {p \in Procs : async[c].pc[p] = "delay"}

\* C10: a Connection that has been open, is not open and was not asked to
\* close is on its way to being open again: a reconnect() is in its delay or a
\* connect() is under way. Without one, nothing opens the Connection again.
C10_ReconnectUnderWay ==
    \A c \in Conns :
        (everOpen[c] /\ ~socketOpen[c] /\ ~askingClose[c])
            => Delays(c) \cup Connects(c) # {}

\* C11: closeConnection() on a Connection that holds subscriptions throws
\* and changes nothing: no socket is closed, askingClose is not set, the
\* subscription list, the open flag and the queue are as before.
C11_CloseWithSubscriptionsRefused ==
    [][(ClientCloseConnection(Standalone) /\ Len(subscriptions[Standalone]) # 0)
          => /\ last' = Event("closeConnection", Standalone, "ActiveSubscriptions")
             /\ UNCHANGED <<askingClose, async, ws, socketOpen, socketConnecting,
                            subscriptions, queue, pending, pingTimer>>]_vars

\* C11 happens: closeConnection() has just thrown on an open Connection that
\* holds a subscription and whose socket is still open.
C11_RefusedWhileOpen ==
    /\ last = Event("closeConnection", Standalone, "ActiveSubscriptions")
    /\ Ready(Standalone)
    /\ Len(subscriptions[Standalone]) # 0
    /\ ~askingClose[Standalone]

\* C12: once the caller has called closeConnection() on a Connection that had
\* been open and holds no subscription, the Connection is not open again
\* before the caller calls connect(): where socketOpen is still set, its
\* socket is the one being closed.
C12_ClosedStaysClosed ==
    (closeAsked[Standalone] /\ socketOpen[Standalone])
        => ReadyState(Standalone) = "CLOSING"

\* a subscribe or unsubscribe call made on Connection c by its caller
SubscriptionCall(c) ==
    \/ \E symbol \in Symbols : ClientSubscribeTicker(c, symbol)
    \/ \E symbol \in Symbols : ClientUnsubscribeTicker(c, symbol)
    \/ \E symbol \in CandleSymbols, interval \in Intervals :
           ClientSubscribeCandle(c, symbol, interval)
    \/ \E symbol \in CandleSymbols, interval \in Intervals :
           ClientUnsubscribeCandle(c, symbol, interval)

\* the payloads of the 'subscriptions' notifications in log, in order
Notifications(log) ==
    LET emits == SelectSeq(log, LAMBDA e : e.ev = "emit")
    IN  [i \in 1..Len(emits) |-> emits[i].data]

\* C13: a subscribe or unsubscribe call that changes the subscription list of
\* a Connection emits one 'subscriptions' notification, which carries the
\* resulting list and comes before the frame of the call is written to the
\* socket; a call that leaves the list as it was emits none.
C13_NotifiedBeforeSent ==
    [][SubscriptionCall(Standalone) =>
          IF subscriptions'[Standalone] # subscriptions[Standalone]
          THEN /\ Notifications(emitted') = <<subscriptions'[Standalone]>>
               /\ Head(emitted').ev = "emit"
          ELSE Notifications(emitted') = <<>>]_vars

\* C14: through the Router, subscribeCandle and unsubscribeCandle with an
\* interval that is not supported fail with an error, and leave the
\* subscription lists and the queues as they were.
C14_InvalidIntervalRefused ==
    [][\A symbol \in CandleSymbols, interval \in Intervals \ DOMAIN mapCandleInterval :
          /\ RouterSubscribeCandle(symbol, interval)
                => /\ Thrown(RouterSubscribeCandleOutcome(symbol, interval))
                   /\ UNCHANGED <<subscriptions, queue, pending>>
          /\ RouterUnsubscribeCandle(symbol, interval)
                => /\ Thrown(RouterUnsubscribeCandleOutcome(symbol, interval))
                   /\ UNCHANGED <<subscriptions, queue, pending>>]_vars

\* the subscribe and unsubscribe commands among the frames
Commands(frames) == SelectSeq(frames, LAMBDA f : f.type # "ping")

\* list begins with the entries of head, in their order
StartsWith(list, head) ==
    Len(head) <= Len(list) /\ SubSeq(list, 1, Len(head)) = head

C16_PingWaitsItsTurn ==
    [][(\E i \in 1..Len(wrote') : wrote'[i].type = "ping")
          => queue[Standalone] = <<>>]_vars

\* the Router made no Connection and started no connect() in the step
NoClientMade == UNCHANGED <<clientList, socketConnecting, async>>

\* C17: a Router subscribe call for a key that is held, a Router unsubscribe
\* call for a key that no Connection holds, and a Router subscribeCandle call
\* that fails for its unsupported interval leave the Router's list of
\* Connections as it was, and create and connect no Connection.
C17_NoClientOnNoOpOrFailure ==
    [][/\ \A symbol \in Symbols :
             /\ (RouterSubscribeTicker(symbol)
                   /\ alreadySubscribed(getTickerSubscriptionKey(symbol))) => NoClientMade
             /\ (RouterUnsubscribeTicker(symbol)
                   /\ ~alreadySubscribed(getTickerSubscriptionKey(symbol))) => NoClientMade
       /\ \A symbol \in CandleSymbols, interval \in Intervals :
             /\ (RouterSubscribeCandle(symbol, interval)
                   /\ alreadySubscribed(getCandleSubscriptionKey(symbol, interval)))
                   => NoClientMade
             /\ (RouterUnsubscribeCandle(symbol, interval)
                   /\ ~alreadySubscribed(getCandleSubscriptionKey(symbol, interval)))
                   => NoClientMade
             /\ (RouterSubscribeCandle(symbol, interval)
                   /\ interval \notin DOMAIN mapCandleInterval
                   /\ Thrown(RouterSubscribeCandleOutcome(symbol, interval)))
                   => NoClientMade]_vars

\* C18: the Router's closeConnection is all or nothing. When a Connection of
\* the Router holds a subscription, the call closes no socket and marks no
\* Connection as closing on request.
C18_CloseAllOrNothing ==
    [][(RouterCloseConnection /\ \E c \in Clients : Len(subscriptions[c]) # 0)
          => UNCHANGED <<askingClose, async>>]_vars

\* the sockets of Connection c that are connecting or open
Live(c) == {s \in Procs : async[c].sock[s] \in {"CONNECTING", "OPEN"}}

\* C19: a Connection has at most one live socket at a time, and it is the one
\* this.ws refers to: no socket is left connecting or open after this.ws was
\* replaced or cleared.
C19_OneLiveSocket ==
    /\ Cardinality(Live(Standalone)) <= 1
    /\ \A s \in Live(Standalone) : ws[Standalone] = s

\* the topic a held key stands for: the ticker topic of the key's symbol
TopicOfKey(key) == <<"/market/ticker:">> \o replaceSlash(SubSeq(key, 3, Len(key)))

\* C20: whenever a Connection is open on a ready socket and its queue is
\* empty, the topics subscribed on the server side of that socket are exactly
\* the topics of the keys in the Connection's subscription list.
C20_ServerMatchesLocal ==
    (Ready(Standalone) /\ queue[Standalone] = <<>>)
        => topics[Standalone] =
               {TopicOfKey(subscriptions[Standalone][i]) :
                    i \in 1..Len(subscriptions[Standalone])}

====
